---- MODULE Spec2Model ----
(***************************************************************************)
(* A model of duplex/file_io.py: protocol resolution, content fetching,    *)
(* type inference, the codec-aware scanners, the scan dispatcher and the   *)
(* progress relay.  Strings the code inspects character by character are   *)
(* tuples of one-character strings.                                        *)
(***************************************************************************)
EXTENDS Integers, Sequences, FiniteSets, TLC

\* ------------------------------------------------------------------ bounds

\* most lines a text source holds
MaxLines == 2
\* most members a zip archive holds
MaxMembers == 2
\* most files a directory lists
MaxDirFiles == 2
\* most sub-directories the scanned directory holds
MaxSubDirs == 1
\* most items the input of the progress relay holds
MaxItems == 3
\* most items the model takes from an unbounded generator
MaxPulls == 4

\* ------------------------------------------------------- string helpers

StartsWith(s, p) == Len(s) >= Len(p) /\ SubSeq(s, 1, Len(p)) = p

\* str.find, 1-based; 0 when absent
IndexOf(s, c) ==
  IF \E i \in 1..Len(s) : s[i] = c
  THEN CHOOSE i \in 1..Len(s) : s[i] = c /\ \A j \in 1..(i - 1) : s[j] # c
  ELSE 0

\* str.rfind, 1-based; 0 when absent
LastIndexOf(s, c) ==
  IF \E i \in 1..Len(s) : s[i] = c
  THEN CHOOSE i \in 1..Len(s) : s[i] = c /\ \A j \in (i + 1)..Len(s) : s[j] # c
  ELSE 0

Letters ==
  {"a", "b", "c", "d", "e", "f", "g", "h", "i", "l", "n", "p", "r", "s", "t",
   "v", "w", "x", "z", "H", "T", "P"}

SchemeChars == Letters \cup {"0", "1", "+", "-", "."}

LowerChar(c) ==
  CASE c = "H" -> "h"
    [] c = "T" -> "t"
    [] c = "P" -> "p"
    [] OTHER -> c

Lower(s) == [i \in 1..Len(s) |-> LowerChar(s[i])]

\* ---------------------------------------------------------------- locations

L_Empty == <<>>
L_Csv == <<"a", ".", "c", "s", "v">>
L_NoExt == <<"x">>
L_Bin == <<"n", ".", "b", "i", "n">>
L_Zip == <<"z", ".", "z", "i", "p">>
L_File == <<"f", "i", "l", "e", ".", "t", "x", "t">>
L_Abs == <<"/", "r", "/", "d">>
L_Http == <<"h", "t", "t", "p", ":", "/", "/", "h", "/", "g">>
L_Https == <<"h", "t", "t", "p", "s", ":", "/", "/", "h", "/", "a", ".", "c", "s", "v">>
L_HttpColon == <<"h", "t", "t", "p", ":", "d">>

Locations ==
  {L_Empty, L_Csv, L_NoExt, L_Bin, L_Zip, L_File, L_Abs, L_Http, L_Https,
   L_HttpColon}

\* the working directory os.path.abspath resolves relative paths against
Cwd == <<"/", "w">>

\* urlparse(uri).scheme: the text before the first ':' when it is a letter
\* followed by scheme characters, lower-cased; otherwise empty
UrlScheme(uri) ==
  LET i == IndexOf(uri, ":")
  IN IF i > 1 /\ uri[1] \in Letters /\ \A j \in 1..(i - 1) : uri[j] \in SchemeChars
     THEN Lower(SubSeq(uri, 1, i - 1))
     ELSE <<>>

\* whether the URL names a host: "scheme://host..." with a non-empty host
HasHost(uri) ==
  LET i == IndexOf(uri, ":")
  IN /\ i > 1
     /\ Len(uri) >= i + 3
     /\ uri[i + 1] = "/"
     /\ uri[i + 2] = "/"
     /\ uri[i + 3] # "/"

\* ------------------------------------------------------- what a location holds

\* the texts the lines of a source are drawn from (no line holds a newline)
Texts == << <<"a">>, <<"b", ",", "c">>, <<>>, <<"d">> >>

LineText(m, i) == Texts[((i + m - 2) % Len(Texts)) + 1]

LinesOf(m, n) == [i \in 1..n |-> LineText(m, i)]

\* the bytes of a text: every line followed by "\n", the last one only when
\* `terminated`
RECURSIVE Encode(_, _)
Encode(lines, terminated) ==
  IF lines = <<>> THEN <<>>
  ELSE IF Len(lines) = 1
       THEN Head(lines) \o (IF terminated THEN <<"\n">> ELSE <<>>)
       ELSE Head(lines) \o <<"\n">> \o Encode(Tail(lines), terminated)

\* a text and its bytes; an unterminated last line is a non-empty one
TextSources(m) ==
  {[lines |-> LinesOf(m, n), bytes |-> Encode(LinesOf(m, n), t)] :
     <<n, t>> \in {nt \in (0..MaxLines) \X BOOLEAN :
                     nt[2] \/ (nt[1] > 0 /\ LineText(m, nt[1]) # <<>>)}}

MemberNames == <<"m1", "m2", "m3", "m4">>

ArchiveMembers(j) ==
  {[name |-> MemberNames[j], lines |-> s.lines, bytes |-> s.bytes] :
     s \in TextSources(j)}

\* archives of up to MaxMembers members, whose names are distinct
Archives ==
  UNION {{a \in [1..k -> UNION {ArchiveMembers(j) : j \in 1..k}] :
            \A j \in 1..k : a[j] \in ArchiveMembers(j)} : k \in 0..MaxMembers}

\* a file's content: the header the content classifier looks at, and the
\* payload the codec delivers (text bytes, or the archive's members)
TextBodies(magic) ==
  {[magic |-> magic, lines |-> s.lines, bytes |-> s.bytes, members |-> <<>>] :
     s \in TextSources(1)}

ZipBodies ==
  {[magic |-> "zip", lines |-> <<>>, bytes |-> <<>>, members |-> a] :
     a \in Archives}

JpegBody == [magic |-> "jpeg", lines |-> <<>>, bytes |-> <<>>, members |-> <<>>]

NoBody == [magic |-> "none", lines |-> <<>>, bytes |-> <<>>, members |-> <<>>]

Bodies ==
  TextBodies("none") \cup TextBodies("gzip") \cup TextBodies("bzip2")
    \cup TextBodies("xz") \cup ZipBodies \cup {JpegBody}

FileNames == << <<"a", ".", "t", "x", "t">>, <<"b", ".", "c", "s", "v">>, <<"c">> >>

SubNames == << <<"s">>, <<"t">> >>

NoTree == [files |-> <<>>, subs |-> <<>>]

Leaf(n) == [files |-> SubSeq(FileNames, 1, n), subs |-> <<>>]

\* directory trees: the files of the directory and its sub-directories
Trees ==
  UNION {{[files |-> SubSeq(FileNames, 1, n),
           subs |-> [j \in 1..k |-> [name |-> SubNames[j], tree |-> Leaf(g[j])]]] :
            n \in 0..MaxDirFiles, g \in [1..k -> 0..MaxDirFiles]} :
         k \in 0..MaxSubDirs}

\* what the local filesystem holds at a path
NoObj == [kind |-> "none", body |-> NoBody, tree |-> NoTree]

FileObjs == {[kind |-> "file", body |-> b, tree |-> NoTree] : b \in Bodies}

DirObjs == {[kind |-> "dir", body |-> NoBody, tree |-> t] : t \in Trees}

\* what an HTTP GET answers: a body, or a transport failure
NoResp == [ok |-> FALSE, body |-> NoBody]

Responses == {NoResp} \cup {[ok |-> TRUE, body |-> b] : b \in Bodies}

\* ------------------------------------------------------ protocol and fetch

\* _infer_protocol with the existence test moved in front of the URL test
InferProtocol_ExistsFirst(uri, exists) ==
  IF StartsWith(uri, <<"f", "i", "l", "e">>) \/ exists THEN "FILE"
  ELSE IF StartsWith(UrlScheme(uri), <<"h", "t", "t", "p">>) THEN "HTTP"
  ELSE "UNKNOWN"

\* FileIO._infer_protocol; `exists` is os.path.exists(uri)
InferProtocol(uri, exists) ==
  IF StartsWith(UrlScheme(uri), <<"h", "t", "t", "p">>) THEN "HTTP"
  ELSE IF StartsWith(uri, <<"f", "i", "l", "e">>) \/ exists THEN "FILE"
  ELSE "UNKNOWN"

Raise(err, via) == [out |-> "raise", body |-> NoBody, err |-> err, via |-> via]

\* FileIO._get_local: open(path, 'rb') and read
GetLocal(obj) ==
  CASE obj.kind = "file" ->
         [out |-> "bytes", body |-> obj.body, err |-> "none", via |-> {"local"}]
    [] obj.kind = "dir" -> Raise("IsADirectoryError", {"local"})
    [] OTHER -> Raise("FileNotFoundError", {"local"})

\* FileIO._get_url: urlopen(url).read()
GetUrl(uri, resp) ==
  IF HasHost(uri) /\ resp.ok
  THEN [out |-> "bytes", body |-> resp.body, err |-> "none", via |-> {"http"}]
  ELSE Raise("URLError", {"http"})

\* FileIO.get
Get(uri, obj, resp) ==
  LET kind == InferProtocol(uri, obj.kind # "none")
  IN CASE kind = "FILE" -> GetLocal(obj)
       [] kind = "HTTP" -> GetUrl(uri, resp)
       [] OTHER -> [out |-> "unknown", body |-> NoBody, err |-> "none", via |-> {}]

\* --------------------------------------------------------- type inference

\* FileType.guess_file_type: the content classifier, by the content's header
GuessFileType(body) ==
  CASE body.magic = "gzip" -> [ok |-> TRUE, tag |-> "GZP"]
    [] body.magic = "zip" -> [ok |-> TRUE, tag |-> "ZIP"]
    [] body.magic = "bzip2" -> [ok |-> TRUE, tag |-> "BZ2"]
    [] body.magic = "xz" -> [ok |-> TRUE, tag |-> "LXZ"]
    [] body.magic = "jpeg" -> [ok |-> TRUE, tag |-> "JPG"]
    [] OTHER -> [ok |-> FALSE, tag |-> "none"]

\* the extension of the last path component, with its dot
Ext(p) ==
  LET sl == LastIndexOf(p, "/")
      d == LastIndexOf(p, ".")
  IN IF d > sl + 1 THEN SubSeq(p, d, Len(p)) ELSE <<>>

Encodings == { <<".", "g", "z">>, <<".", "b", "z", "2">>, <<".", "x", "z">> }

\* mimetypes.guess_type(uri)[0] as <<type, subtype>>; <<>> when it has none
GuessType(uri) ==
  LET e0 == Ext(uri)
      base == IF e0 \in Encodings THEN SubSeq(uri, 1, Len(uri) - Len(e0)) ELSE uri
      e == Ext(base)
  IN CASE e = <<".", "c", "s", "v">> -> <<"text", "csv">>
       [] e = <<".", "t", "x", "t">> -> <<"text", "plain">>
       [] e = <<".", "z", "i", "p">> -> <<"application", "zip">>
       [] e = <<".", "b", "i", "n">> -> <<"application", "octet-stream">>
       [] OTHER -> <<>>

\* file_type.split('/')[1].upper()
MediaTag(mt) ==
  CASE mt[2] = "csv" -> "CSV"
    [] mt[2] = "plain" -> "PLAIN"
    [] mt[2] = "zip" -> "ZIP"
    [] OTHER -> "OCTET-STREAM"

\* the except branch defaulting to plain text when the name tells nothing
NameFallback_Plain(uri, fetched, classified, via) ==
  [out |-> "tag",
   tag |-> IF GuessType(uri) # <<>> THEN MediaTag(GuessType(uri)) ELSE "PLAIN",
   err |-> "none", fetched |-> fetched, classified |-> classified, via |-> via]

\* the except branch of infer_file_type_from_uri: guess from the name
NameFallback(uri, fetched, classified, via) ==
  IF GuessType(uri) # <<>>
  THEN [out |-> "tag", tag |-> MediaTag(GuessType(uri)), err |-> "none",
        fetched |-> fetched, classified |-> classified, via |-> via]
  ELSE [out |-> "raise", tag |-> "none", err |-> "FileTypeNotSupportedYet",
        fetched |-> fetched, classified |-> classified, via |-> via]

\* infer_file_type_from_uri with the Unknown test in front of the try block
InferFileTypeFromUri_RaiseOnUnknown(uri, obj, resp) ==
  LET r == Get(uri, obj, resp)
  IN CASE r.out = "raise" ->
            [out |-> "raise", tag |-> "none", err |-> r.err,
             fetched |-> "raise", classified |-> FALSE, via |-> r.via]
       [] r.out = "unknown" ->
            [out |-> "raise", tag |-> "none", err |-> "FileTypeNotSupportedYet",
             fetched |-> "unknown", classified |-> FALSE, via |-> r.via]
       [] OTHER ->
            IF GuessFileType(r.body).ok
            THEN [out |-> "tag", tag |-> GuessFileType(r.body).tag, err |-> "none",
                  fetched |-> "bytes", classified |-> TRUE, via |-> r.via]
            ELSE NameFallback(uri, "bytes", TRUE, r.via)

\* FileIO.infer_file_type_from_uri (mimetype=False)
InferFileTypeFromUri(uri, obj, resp) ==
  LET r == Get(uri, obj, resp)
  IN CASE r.out = "raise" ->
            [out |-> "raise", tag |-> "none", err |-> r.err,
             fetched |-> "raise", classified |-> FALSE, via |-> r.via]
       [] r.out = "unknown" -> NameFallback(uri, "unknown", FALSE, r.via)
       [] OTHER ->
            IF GuessFileType(r.body).ok
            THEN [out |-> "tag", tag |-> GuessFileType(r.body).tag, err |-> "none",
                  fetched |-> "bytes", classified |-> TRUE, via |-> r.via]
            ELSE NameFallback(uri, "bytes", TRUE, r.via)

\* ------------------------------------------------------------ line readers

\* file.readline(): through the first "\n", or to the end
ReadLine(bytes) ==
  LET i == IndexOf(bytes, "\n")
  IN IF i = 0 THEN bytes ELSE SubSeq(bytes, 1, i)

IsNotNewline(c) == c # "\n"

\* the row yielded as read
StripNewline_Keep(row) == row

\* row.replace('\n', '')
StripNewline(row) == SelectSeq(row, IsNotNewline)

\* str.splitlines()
RECURSIVE SplitLines(_)
SplitLines(text) ==
  IF text = <<>> THEN <<>>
  ELSE LET line == ReadLine(text)
       IN <<StripNewline(line)>> \o SplitLines(SubSeq(text, Len(line) + 1, Len(text)))

\* csv.reader on one line: the fields between commas; an empty line is an
\* empty row
RECURSIVE SplitComma(_)
SplitComma(line) ==
  LET i == IndexOf(line, ",")
  IN IF i = 0 THEN <<line>>
     ELSE <<SubSeq(line, 1, i - 1)>> \o SplitComma(SubSeq(line, i + 1, Len(line)))

CsvRow(line) == IF line = <<>> THEN <<>> ELSE SplitComma(line)

\* ------------------------------------------------------------------ state

VARIABLES
  uri,        \* the location given to scan
  disk,       \* what the local filesystem holds at uri
  web,        \* what an HTTP GET of uri answers
  pc,         \* where the scan generator stands
  protocol,   \* what _infer_protocol(uri) answered inside the first fetch
  suspended,  \* whether the generator waits for the consumer's next pull
  inferred,   \* inferred_type
  fetched,    \* how the fetch of type inference ended
  classified, \* whether type inference consulted the content classifier
  scanner,    \* the scanner scan iterates
  buf,        \* csv: the lines not yet parsed; codecs: the bytes not yet read
  names,      \* zip: the member names not yet opened
  inMember,   \* zip: whether a member is open
  queue,      \* walk: the directories not yet listed
  pending,    \* walk: the listed files not yet yielded
  yielded,    \* the items the consumer received, in order
  error,      \* the failure raised to the consumer
  accesses,   \* the fetch strategies the scan used on uri
  scoped,     \* open handles a with block owns
  zipLive,    \* open ZipFile handles still referenced
  orphaned,   \* open handles left to the garbage collector to close
  opened,     \* how many handles the scan opened so far
  rPc,        \* where the progress relay stands
  rPrecise,   \* progress(precise=...)
  rSized,     \* whether len(iterable) works
  rInfinite,  \* whether the input is an unbounded generator
  rIn,        \* the items of a finite input
  rSrc,       \* the items the input has not yet produced
  rBuf,       \* precise mode: the unrolled input not yet yielded
  rCount,     \* precise mode: count
  rOut,       \* the items the relay yielded, in order
  rPulled,    \* how many items the relay took from its input
  rShown      \* the last progress indication printed

scanVars ==
  <<uri, disk, web, pc, protocol, suspended, inferred, fetched, classified, scanner, buf,
    names, inMember, queue, pending, yielded, error, accesses, scoped, zipLive,
    orphaned, opened>>

relayVars ==
  <<rPc, rPrecise, rSized, rInfinite, rIn, rSrc, rBuf, rCount, rOut, rPulled,
    rShown>>

vars == <<scanVars, relayVars>>

\* ------------------------------------------------------------- scanners

\* the chain with the bzip2 and xz branches exchanged
ScannerFor_Swapped(tag) ==
  CASE tag \in {"CSV", "PLAIN"} -> "csv"
    [] tag = "GZP" -> "gzip"
    [] tag = "ZIP" -> "zip"
    [] tag = "BZ2" -> "xz"
    [] tag = "LXZ" -> "bzip2"
    [] OTHER -> "none"

\* the if/elif chain of FileIO.scan
ScannerFor(tag) ==
  CASE tag \in {"CSV", "PLAIN"} -> "csv"
    [] tag = "GZP" -> "gzip"
    [] tag = "ZIP" -> "zip"
    [] tag = "BZ2" -> "bzip2"
    [] tag = "LXZ" -> "xz"
    [] OTHER -> "none"

TextCodecs == {"gzip", "bzip2", "xz"}

Opening(out, err, b, n, via, sc, garbage, count) ==
  [out |-> out, err |-> err, buf |-> b, names |-> n, via |-> via, scoped |-> sc,
   garbage |-> garbage, opened |-> count]

\* the first lines of scan_csv: fetch, decode, splitlines
OpenCsv(u, obj, resp) ==
  LET r == Get(u, obj, resp)
      n == IF "local" \in r.via /\ obj.kind = "file" THEN 1 ELSE 0
  IN CASE r.out = "raise" -> Opening("raise", r.err, <<>>, <<>>, r.via, 0, 0, n)
       [] r.out = "unknown" ->
            Opening("raise", "FileTypeNotSupportedYet", <<>>, <<>>, r.via, 0, 0, n)
       [] OTHER -> Opening("ok", "none", SplitLines(r.body.bytes), <<>>, r.via, 0, 0, n)

\* gzip.open(uri, 'rt'), bz2.open(uri, 'rt'), lzma.open(uri, 'rt'): a local
\* open, whatever the location's protocol
OpenCodec(codec, obj) ==
  CASE obj.kind = "none" ->
         Opening("raise", "FileNotFoundError", <<>>, <<>>, {"local"}, 0, 0, 0)
    [] obj.kind = "dir" ->
         Opening("raise", "IsADirectoryError", <<>>, <<>>, {"local"}, 0, 0, 0)
    [] obj.body.magic # codec ->
         Opening("raise", "OSError", <<>>, <<>>, {"local"}, 0, 0, 1)
    [] OTHER -> Opening("ok", "none", obj.body.bytes, <<>>, {"local"}, 1, 0, 1)

\* ZipFile.namelist
NameList(members) == [j \in 1..Len(members) |-> members[j].name]

\* zipfile.ZipFile(uri).namelist(): the archive object is dropped unclosed
OpenZip(obj) ==
  CASE obj.kind = "none" ->
         Opening("raise", "FileNotFoundError", <<>>, <<>>, {"local"}, 0, 0, 0)
    [] obj.kind = "dir" ->
         Opening("raise", "IsADirectoryError", <<>>, <<>>, {"local"}, 0, 0, 0)
    [] obj.body.magic # "zip" ->
         Opening("raise", "BadZipFile", <<>>, <<>>, {"local"}, 0, 0, 1)
    [] OTHER ->
         Opening("ok", "none", <<>>, NameList(obj.body.members), {"local"}, 0, 1, 1)

OpenScanner(s, u, obj, resp) ==
  CASE s = "csv" -> OpenCsv(u, obj, resp)
    [] s = "zip" -> OpenZip(obj)
    [] OTHER -> OpenCodec(s, obj)

Row(val) == [kind |-> "row", val |-> val]

Path(val) == [kind |-> "path", val |-> val]

NoItem == [kind |-> "none", val |-> <<>>]

Step(out, item, err, b, n, member, sc, live, garbage, count) ==
  [out |-> out, item |-> item, err |-> err, buf |-> b, names |-> n,
   inMember |-> member, scoped |-> sc, zipLive |-> live, orphaned |-> garbage,
   opened |-> count]

\* one turn of "for row in reader: yield row" of scan_csv
NextCsv(b, garbage, count) ==
  IF b = <<>>
  THEN Step("end", NoItem, "none", <<>>, <<>>, FALSE, 0, 0, garbage, count)
  ELSE Step("item", Row(CsvRow(Head(b))), "none", Tail(b), <<>>, FALSE, 0, 0,
            garbage, count)

\* one turn of "for row in f: yield row.replace('\n', '')" inside the with
\* block of scan_csv_gzip, scan_csv_bzip2 and scan_csv_xz; the end of the
\* file leaves the with block, which closes the handle
NextCodec(b, garbage, count) ==
  IF b = <<>>
  THEN Step("end", NoItem, "none", <<>>, <<>>, FALSE, 0, 0, garbage, count)
  ELSE Step("item", Row(StripNewline(ReadLine(b))), "none",
            SubSeq(b, Len(ReadLine(b)) + 1, Len(b)), <<>>, FALSE, 1, 0, garbage,
            count)

\* ZipFile.open(name): the member of that name
HasMember(members, name) == \E j \in 1..Len(members) : members[j].name = name

MemberOf(members, name) ==
  members[CHOOSE j \in 1..Len(members) :
            /\ members[j].name = name
            /\ \A k \in (j + 1)..Len(members) : members[k].name # name]

\* scan_csv_zip up to its next yield: the rows of the open member, then the
\* next member, opened through a new ZipFile object that nothing closes
RECURSIVE NextZip(_, _, _, _, _, _, _)
NextZip(obj, b, n, member, live, garbage, count) ==
  IF member /\ b # <<>>
  THEN Step("item", Row(StripNewline(ReadLine(b))), "none",
            SubSeq(b, Len(ReadLine(b)) + 1, Len(b)), n, TRUE, 0, live, garbage, count)
  ELSE IF member
  THEN NextZip(obj, <<>>, n, FALSE, 0, garbage + live, count)
  ELSE IF n = <<>>
  THEN Step("end", NoItem, "none", <<>>, <<>>, FALSE, 0, live, garbage, count)
  ELSE IF obj.kind = "none"
  THEN Step("raise", NoItem, "FileNotFoundError", <<>>, n, FALSE, 0, live, garbage, count)
  ELSE IF obj.kind = "dir"
  THEN Step("raise", NoItem, "IsADirectoryError", <<>>, n, FALSE, 0, live, garbage, count)
  ELSE IF obj.body.magic # "zip"
  THEN Step("raise", NoItem, "BadZipFile", <<>>, n, FALSE, 0, live, garbage, count + 1)
  ELSE IF ~HasMember(obj.body.members, Head(n))
  THEN Step("raise", NoItem, "KeyError", <<>>, n, FALSE, 0, live, garbage + 1, count + 1)
  ELSE NextZip(obj, MemberOf(obj.body.members, Head(n)).bytes, Tail(n), TRUE,
               1, garbage, count + 1)

\* the scanner's generator up to its next yield
NextRow(s, obj, b, n, member, live, garbage, count) ==
  CASE s = "csv" -> NextCsv(b, garbage, count)
    [] s = "zip" -> NextZip(obj, b, n, member, live, garbage, count)
    [] OTHER -> NextCodec(b, garbage, count)

\* -------------------------------------------------------- directory walk

\* os.path.join(top, name)
JoinPath(top, name) ==
  IF top # <<>> /\ top[Len(top)] = "/" THEN top \o name ELSE top \o <<"/">> \o name

\* os.path.normpath on the paths of the model: runs of "/" collapse to one
RECURSIVE NormPath(_)
NormPath(p) ==
  IF Len(p) < 2 THEN p
  ELSE IF p[1] = "/" /\ p[2] = "/" THEN NormPath(Tail(p))
  ELSE <<p[1]>> \o NormPath(Tail(p))

\* os.path.abspath
AbsPath(p) ==
  IF p # <<>> /\ p[1] = "/" THEN NormPath(p) ELSE NormPath(Cwd \o <<"/">> \o p)

\* a walk that lists the top directory only
NextWalk_TopOnly(q, files) ==
  IF files # <<>>
  THEN [out |-> "item", item |-> Path(AbsPath(Head(files))), queue |-> q,
        pending |-> Tail(files)]
  ELSE IF q = <<>>
  THEN [out |-> "end", item |-> NoItem, queue |-> <<>>, pending |-> <<>>]
  ELSE IF Head(q).tree.files = <<>>
  THEN [out |-> "end", item |-> NoItem, queue |-> <<>>, pending |-> <<>>]
  ELSE [out |-> "item",
        item |-> Path(AbsPath(Head(q).root \o <<"/">> \o Head(q).tree.files[1])),
        queue |-> <<>>,
        pending |-> [j \in 1..(Len(Head(q).tree.files) - 1) |->
                       Head(q).root \o <<"/">> \o Head(q).tree.files[j + 1]]]

\* os.walk(uri) with the loop over files, up to the next yield: top-down, a
\* directory's files first, then its sub-directories in listing order
RECURSIVE NextWalk(_, _)
NextWalk(q, files) ==
  IF files # <<>>
  THEN [out |-> "item", item |-> Path(AbsPath(Head(files))), queue |-> q,
        pending |-> Tail(files)]
  ELSE IF q = <<>>
  THEN [out |-> "end", item |-> NoItem, queue |-> <<>>, pending |-> <<>>]
  ELSE LET d == Head(q)
       IN NextWalk(
            [j \in 1..Len(d.tree.subs) |->
               [root |-> JoinPath(d.root, d.tree.subs[j].name),
                tree |-> d.tree.subs[j].tree]] \o Tail(q),
            [j \in 1..Len(d.tree.files) |-> d.root \o <<"/">> \o d.tree.files[j]])

\* ------------------------------------------------------------------ scan

GzipSample ==
  [magic |-> "gzip", lines |-> LinesOf(1, 1), bytes |-> Encode(LinesOf(1, 1), TRUE),
   members |-> <<>>]

\* what may lie on disk at a location: nothing at the empty path; at a path
\* that is also a URL with a host, nothing, a directory or a gzip file
DiskFor(u) ==
  IF u = L_Empty THEN {NoObj}
  ELSE IF HasHost(u)
  THEN {NoObj, [kind |-> "dir", body |-> NoBody, tree |-> Leaf(1)],
        [kind |-> "file", body |-> GzipSample, tree |-> NoTree]}
  ELSE {NoObj} \cup FileObjs \cup DirObjs

WebFor(u) == IF HasHost(u) THEN Responses ELSE {NoResp}

RelayOff ==
  /\ rPc = "off"
  /\ rPrecise = FALSE
  /\ rSized = FALSE
  /\ rInfinite = FALSE
  /\ rIn = <<>>
  /\ rSrc = <<>>
  /\ rBuf = <<>>
  /\ rCount = 0
  /\ rOut = <<>>
  /\ rPulled = 0
  /\ rShown = <<>>

\* scan(uri) was called: the generator exists and nothing of it has run
Init ==
  /\ uri \in Locations
  /\ disk \in DiskFor(uri)
  /\ web \in WebFor(uri)
  /\ pc = "created"
  /\ protocol = "none"
  /\ suspended = TRUE
  /\ inferred = "none"
  /\ fetched = "none"
  /\ classified = FALSE
  /\ scanner = "none"
  /\ buf = <<>>
  /\ names = <<>>
  /\ inMember = FALSE
  /\ queue = <<>>
  /\ pending = <<>>
  /\ yielded = <<>>
  /\ error = "none"
  /\ accesses = {}
  /\ scoped = 0
  /\ zipLive = 0
  /\ orphaned = 0
  /\ opened = 0
  /\ RelayOff

\* an exception leaves the try block of scan: IsADirectoryError is caught and
\* starts the directory walk, anything else reaches the consumer
AfterRaise(err) ==
  IF err = "IsADirectoryError"
  THEN pc' = "walk" /\ error' = error
  ELSE pc' = "failed" /\ error' = err

\* the first pull: inferred_type = self.infer_file_type_from_uri(uri)
Infer ==
  /\ pc = "created"
  /\ LET r == InferFileTypeFromUri(uri, disk, web)
     IN /\ protocol' = InferProtocol(uri, disk.kind # "none")
        /\ fetched' = r.fetched
        /\ classified' = r.classified
        /\ accesses' = accesses \cup r.via
        /\ opened' = opened + (IF "local" \in r.via /\ disk.kind = "file" THEN 1 ELSE 0)
        /\ IF r.out = "tag"
           THEN inferred' = r.tag /\ pc' = "dispatch" /\ error' = error
           ELSE inferred' = inferred /\ AfterRaise(r.err)
  /\ suspended' = FALSE
  /\ UNCHANGED <<uri, disk, web, scanner, buf, names, inMember, queue, pending,
                 yielded, scoped, zipLive, orphaned, relayVars>>

\* the if/elif chain on inferred_type
Dispatch ==
  /\ pc = "dispatch"
  /\ IF ScannerFor(inferred) = "none"
     THEN pc' = "failed" /\ error' = "FileScanNotPossible" /\ scanner' = scanner
     ELSE pc' = "open" /\ error' = error /\ scanner' = ScannerFor(inferred)
  /\ UNCHANGED <<uri, disk, web, protocol, suspended, inferred, fetched, classified, buf,
                 names, inMember, queue, pending, yielded, accesses, scoped,
                 zipLive, orphaned, opened, relayVars>>

\* the selected scanner's generator starts
Open ==
  /\ pc = "open"
  /\ LET r == OpenScanner(scanner, uri, disk, web)
     IN /\ accesses' = accesses \cup r.via
        /\ opened' = opened + r.opened
        /\ orphaned' = orphaned + r.garbage
        /\ scoped' = r.scoped
        /\ buf' = r.buf
        /\ names' = r.names
        /\ IF r.out = "ok" THEN pc' = "scanning" /\ error' = error
           ELSE AfterRaise(r.err)
  /\ UNCHANGED <<uri, disk, web, protocol, suspended, inferred, fetched, classified,
                 scanner, inMember, queue, pending, yielded, zipLive, relayVars>>

\* "for line in scanner: yield line": the next row, or the scanner's end
Scan ==
  /\ pc = "scanning"
  /\ LET r == NextRow(scanner, disk, buf, names, inMember, zipLive, orphaned, opened)
     IN /\ buf' = r.buf
        /\ names' = r.names
        /\ opened' = r.opened
        /\ CASE r.out = "item" ->
                  /\ yielded' = Append(yielded, r.item)
                  /\ suspended' = TRUE
                  /\ pc' = pc
                  /\ error' = error
                  /\ inMember' = r.inMember
                  /\ scoped' = r.scoped
                  /\ zipLive' = r.zipLive
                  /\ orphaned' = r.orphaned
             [] r.out = "end" ->
                  /\ yielded' = yielded
                  /\ suspended' = FALSE
                  /\ pc' = "done"
                  /\ error' = error
                  /\ inMember' = FALSE
                  /\ scoped' = 0
                  /\ zipLive' = 0
                  /\ orphaned' = r.orphaned + r.zipLive
             [] OTHER ->
                  /\ yielded' = yielded
                  /\ suspended' = FALSE
                  /\ AfterRaise(r.err)
                  /\ inMember' = FALSE
                  /\ scoped' = 0
                  /\ zipLive' = 0
                  /\ orphaned' = r.orphaned + r.zipLive
  /\ UNCHANGED <<uri, disk, web, protocol, inferred, fetched, classified, scanner, queue,
                 pending, accesses, relayVars>>

\* except IsADirectoryError: os.walk(uri) starts
WalkStart ==
  /\ pc = "walk"
  /\ pc' = "walking"
  /\ queue' = IF disk.kind = "dir" THEN <<[root |-> uri, tree |-> disk.tree]>> ELSE <<>>
  /\ pending' = <<>>
  /\ accesses' = accesses \cup {"local"}
  /\ UNCHANGED <<uri, disk, web, protocol, suspended, inferred, fetched, classified,
                 scanner, buf, names, inMember, yielded, error, scoped, zipLive,
                 orphaned, opened, relayVars>>

\* the walk's next path, or its end
Walk ==
  /\ pc = "walking"
  /\ LET r == NextWalk(queue, pending)
     IN /\ queue' = r.queue
        /\ pending' = r.pending
        /\ IF r.out = "item"
           THEN yielded' = Append(yielded, r.item) /\ suspended' = TRUE /\ pc' = pc
           ELSE yielded' = yielded /\ suspended' = FALSE /\ pc' = "done"
  /\ UNCHANGED <<uri, disk, web, protocol, inferred, fetched, classified, scanner, buf,
                 names, inMember, error, accesses, scoped, zipLive, orphaned,
                 opened, relayVars>>

\* the consumer stops iterating and the scan generator is closed: GeneratorExit
\* is raised at scan's yield; the scanner's generator, iterated by a for loop,
\* is not closed with it, so its with block and any open ZipFile are left to
\* the garbage collector
Abandon ==
  /\ suspended
  /\ pc \in {"created", "scanning", "walking"}
  /\ pc' = "closed"
  /\ suspended' = FALSE
  /\ scoped' = 0
  /\ zipLive' = 0
  /\ orphaned' = orphaned + scoped + zipLive
  /\ inMember' = FALSE
  /\ UNCHANGED <<uri, disk, web, protocol, inferred, fetched, classified, scanner, buf,
                 names, queue, pending, yielded, error, accesses, opened,
                 relayVars>>

\* the garbage collector finalises an object nothing references, which
\* closes its handle; when it does so is up to the interpreter
Collect ==
  /\ orphaned > 0
  /\ orphaned' = orphaned - 1
  /\ UNCHANGED <<uri, disk, web, protocol, pc, suspended, inferred, fetched, classified,
                 scanner, buf, names, inMember, queue, pending, yielded, error,
                 accesses, scoped, zipLive, opened, relayVars>>

Next == Infer \/ Dispatch \/ Open \/ Scan \/ WalkStart \/ Walk \/ Abandon \/ Collect

Spec == Init /\ [][Next]_vars

\* the filesystem under a running scan: another process replaces the file at
\* uri by a directory; every later open(uri), gzip.open(uri), ZipFile(uri) and
\* os.walk(uri) of the scan sees the directory, a handle already open keeps
\* reading the file it was opened on
Replace ==
  /\ pc \notin {"done", "closed", "failed"}
  /\ disk.kind = "file"
  /\ disk' \in {d \in DiskFor(uri) : d.kind = "dir"}
  /\ UNCHANGED <<uri, web, pc, protocol, suspended, inferred, fetched, classified,
                 scanner, buf, names, inMember, queue, pending, yielded, error,
                 accesses, scoped, zipLive, orphaned, opened, relayVars>>

NextReplace ==
  Infer \/ Dispatch \/ Open \/ Scan \/ WalkStart \/ Walk \/ Abandon \/ Collect \/ Replace

\* scan over a filesystem that may change between any two steps
SpecReplace == Init /\ [][NextReplace]_vars

\* ------------------------------------------------------- progress relay

\* the glyphs of `clocks`
ClockCount == 12

RelayItems == {7, 8}

RelayInputs == UNION {[1..n -> RelayItems] : n \in 0..MaxItems}

ScanOff ==
  /\ uri = <<>>
  /\ disk = NoObj
  /\ web = NoResp
  /\ pc = "off"
  /\ protocol = "none"
  /\ suspended = FALSE
  /\ inferred = "none"
  /\ fetched = "none"
  /\ classified = FALSE
  /\ scanner = "none"
  /\ buf = <<>>
  /\ names = <<>>
  /\ inMember = FALSE
  /\ queue = <<>>
  /\ pending = <<>>
  /\ yielded = <<>>
  /\ error = "none"
  /\ accesses = {}
  /\ scoped = 0
  /\ zipLive = 0
  /\ orphaned = 0
  /\ opened = 0

\* progress(iterable, precise) was called: a list (sized), a finite generator
\* or an unbounded generator that counts 1, 2, 3, ...
RelayInit ==
  /\ ScanOff
  /\ rPc = "created"
  /\ rPrecise \in BOOLEAN
  /\ rSized \in BOOLEAN
  /\ rInfinite \in BOOLEAN
  /\ rInfinite => ~rSized
  /\ rIn \in RelayInputs
  /\ rInfinite => rIn = <<>>
  /\ rSrc = rIn
  /\ rBuf = <<>>
  /\ rCount = 0
  /\ rOut = <<>>
  /\ rPulled = 0
  /\ rShown = <<>>

\* a relay that unrolls every input that has no length, whatever the mode
NeedsUnroll_Always(precise, sized) == ~sized

\* "if precise: try: count = len(iterable) except TypeError: [*iterable]"
NeedsUnroll(precise, sized) == precise /\ ~sized

\* a loop that yields the index of enumerate in place of the item
RelayValue_Index(index, value) == index

\* "yield value" and "yield value_clock[0]"
RelayValue(index, value) == value

\* int(percentage * 100) with percentage = (index + 1) / count
Percent(index, count) == ((index + 1) * 100) \div count

\* whether next(iterable) answers an item
SourceHasNext == IF rInfinite THEN rPulled < MaxPulls ELSE rSrc # <<>>

SourceItem == IF rInfinite THEN rPulled + 1 ELSE Head(rSrc)

\* the first pull enters the function body
RelayStart ==
  /\ rPc = "created"
  /\ IF NeedsUnroll(rPrecise, rSized)
     THEN rPc' = "unrolling" /\ rCount' = rCount
     ELSE rPc' = "running" /\ rCount' = IF rPrecise THEN Len(rSrc) ELSE rCount
  /\ UNCHANGED <<scanVars, rPrecise, rSized, rInfinite, rIn, rSrc, rBuf, rOut,
                 rPulled, rShown>>

\* iterable = [*iterable]; count = len(iterable): item by item, to the
\* input's end
RelayUnroll ==
  /\ rPc = "unrolling"
  /\ IF rInfinite \/ rSrc # <<>>
     THEN /\ SourceHasNext
          /\ rBuf' = Append(rBuf, SourceItem)
          /\ rSrc' = IF rInfinite THEN rSrc ELSE Tail(rSrc)
          /\ rPulled' = rPulled + 1
          /\ UNCHANGED <<rPc, rCount>>
     ELSE /\ rCount' = Len(rBuf)
          /\ rPc' = "running"
          /\ UNCHANGED <<rBuf, rSrc, rPulled>>
  /\ UNCHANGED <<scanVars, rPrecise, rSized, rInfinite, rIn, rOut, rShown>>

\* one turn of the for loop: print the progress, yield the item; or the
\* loop's end
RelayYield ==
  /\ rPc = "running"
  /\ IF rPrecise /\ ~rSized
     THEN \* the unrolled list is iterated
          IF rBuf = <<>>
          THEN rPc' = "done" /\ UNCHANGED <<rBuf, rSrc, rOut, rPulled, rShown>>
          ELSE /\ rShown' = <<Len(rOut) + 1, Percent(Len(rOut), rCount)>>
               /\ rOut' = Append(rOut, RelayValue(Len(rOut), Head(rBuf)))
               /\ rBuf' = Tail(rBuf)
               /\ UNCHANGED <<rPc, rSrc, rPulled>>
     ELSE \* the input itself is iterated
          IF ~rInfinite /\ rSrc = <<>>
          THEN rPc' = "done" /\ UNCHANGED <<rBuf, rSrc, rOut, rPulled, rShown>>
          ELSE /\ SourceHasNext
               /\ rShown' = <<Len(rOut) + 1,
                              IF rPrecise THEN Percent(Len(rOut), rCount)
                              ELSE (Len(rOut) % ClockCount) + 1>>
               /\ rOut' = Append(rOut, RelayValue(Len(rOut), SourceItem))
               /\ rSrc' = IF rInfinite THEN rSrc ELSE Tail(rSrc)
               /\ rPulled' = rPulled + 1
               /\ UNCHANGED <<rPc, rBuf>>
  /\ UNCHANGED <<scanVars, rPrecise, rSized, rInfinite, rIn, rCount>>

RelayNext == RelayStart \/ RelayUnroll \/ RelayYield

SpecRelay == RelayInit /\ [][RelayNext]_vars

\* ------------------------------------------------------------------ claims

HttpPrefix == <<"h", "t", "t", "p", ":", "/", "/">>

HttpsPrefix == <<"h", "t", "t", "p", "s", ":", "/", "/">>

\* a syntactically valid http:// or https:// string
ValidHttp(u) ==
  \/ StartsWith(u, HttpPrefix) /\ Len(u) > Len(HttpPrefix)
  \/ StartsWith(u, HttpsPrefix) /\ Len(u) > Len(HttpsPrefix)

\* the text before the first ':' is a URL scheme that begins with "http"
HttpLikeScheme(u) == StartsWith(UrlScheme(u), <<"h", "t", "t", "p">>)

FilePrefixed(u) == StartsWith(u, <<"f", "i", "l", "e">>)

\* a path that is not absolute and not an http(s) URL
RelativePath(u) == u # <<>> /\ u[1] # "/" /\ ~ValidHttp(u)

\* C1 as stated: every existing regular file resolves to Local, every valid
\* http(s) string to Remote, the empty string and every relative path at
\* which nothing exists to Unknown.
C1_AsStated ==
  protocol # "none" =>
    /\ disk.kind = "file" => protocol = "FILE"
    /\ ValidHttp(uri) => protocol = "HTTP"
    /\ uri = L_Empty => protocol = "UNKNOWN"
    /\ (RelativePath(uri) /\ disk.kind = "none") => protocol = "UNKNOWN"

\* C1 amended: a location whose URL scheme begins with "http" (every valid
\* http(s) string among them) resolves to Remote, whether or not it exists
\* locally; any other location that exists as a regular file resolves to
\* Local; the empty string resolves to Unknown; a relative path at which
\* nothing exists resolves to Local when it begins with "file", and to
\* Unknown when it neither begins with "file" nor has such a scheme.
C1_ProtocolResolution ==
  protocol # "none" =>
    /\ ValidHttp(uri) => protocol = "HTTP"
    /\ HttpLikeScheme(uri) => protocol = "HTTP"
    /\ (disk.kind = "file" /\ ~HttpLikeScheme(uri)) => protocol = "FILE"
    /\ uri = L_Empty => protocol = "UNKNOWN"
    /\ (RelativePath(uri) /\ disk.kind = "none" /\ FilePrefixed(uri)) =>
         protocol = "FILE"
    /\ (RelativePath(uri) /\ disk.kind = "none" /\ ~FilePrefixed(uri)
          /\ ~HttpLikeScheme(uri)) => protocol = "UNKNOWN"

\* a relative path beginning with "file" at which nothing exists was resolved
C1_Witness ==
  /\ uri = L_File
  /\ disk.kind = "none"
  /\ protocol = "FILE"

\* C2 as stated: when the fetch of type inference returns the Unknown
\* sentinel, inference fails with FileTypeNotSupportedYet and returns no tag.
C2_AsStated ==
  (pc # "created" /\ fetched = "unknown") =>
    /\ inferred = "none"
    /\ pc = "failed"
    /\ error = "FileTypeNotSupportedYet"

\* C2 amended: when the fetch returns the Unknown sentinel, inference never
\* consults the content classifier; it returns the tag the name guesser
\* derives from the location's extension when there is one, and fails with
\* FileTypeNotSupportedYet only when the name guesser recognises nothing.
C2_UnknownFallsBackToName ==
  (pc # "created" /\ fetched = "unknown") =>
    /\ ~classified
    /\ GuessType(uri) = <<>> =>
         inferred = "none" /\ pc = "failed" /\ error = "FileTypeNotSupportedYet"
    /\ GuessType(uri) # <<>> => inferred = MediaTag(GuessType(uri))
    /\ uri = L_Csv => inferred = "CSV"
    /\ uri = L_Zip => inferred = "ZIP"
    /\ uri = L_NoExt => inferred = "none"

\* inference returned CSV for a location whose fetch returned Unknown
C2_Witness ==
  /\ fetched = "unknown"
  /\ uri = L_Csv
  /\ inferred = "CSV"

\* C3: scan iterates exactly the scanner that belongs to the inferred tag
\* (CSV, PLAIN: csv; GZP: gzip; ZIP: zip; BZ2: bzip2; LXZ: xz), rows come
\* from no one else, and any other tag ends the scan with
\* FileScanNotPossible before anything was yielded.
C3_DispatchFollowsTag ==
  /\ scanner # "none" =>
       \/ inferred \in {"CSV", "PLAIN"} /\ scanner = "csv"
       \/ inferred = "GZP" /\ scanner = "gzip"
       \/ inferred = "ZIP" /\ scanner = "zip"
       \/ inferred = "BZ2" /\ scanner = "bzip2"
       \/ inferred = "LXZ" /\ scanner = "xz"
  /\ pc \in {"open", "scanning"} => scanner # "none"
  /\ (\E i \in 1..Len(yielded) : yielded[i].kind = "row") => scanner # "none"
  /\ (inferred \notin {"none", "CSV", "PLAIN", "GZP", "ZIP", "BZ2", "LXZ"}
        /\ pc # "dispatch") =>
       /\ pc = "failed"
       /\ error = "FileScanNotPossible"
       /\ scanner = "none"
       /\ yielded = <<>>

\* the bzip2 scanner yielded a row for a location inferred as BZ2
C3_Witness ==
  /\ inferred = "BZ2"
  /\ scanner = "bzip2"
  /\ pc = "scanning"
  /\ yielded # <<>>

\* the absolute paths of the files of a directory tree of the model
TreePaths(u, tree) ==
  {AbsPath(u \o <<"/">> \o tree.files[i]) : i \in 1..Len(tree.files)}
    \cup UNION {{AbsPath(u \o <<"/">> \o tree.subs[j].name \o <<"/">>
                           \o tree.subs[j].tree.files[i]) :
                   i \in 1..Len(tree.subs[j].tree.files)} :
                j \in 1..Len(tree.subs)}

YieldedVals == {yielded[i].val : i \in 1..Len(yielded)}

OnlyPaths == \A i \in 1..Len(yielded) : yielded[i].kind = "path"

NoRepeats == \A i, j \in 1..Len(yielded) : yielded[i] = yielded[j] => i = j

\* C4 as stated: scanning a directory never fails, yields only paths, and
\* ends having yielded the absolute path of every file of the tree once.
C4_AsStated ==
  disk.kind = "dir" =>
    /\ pc # "failed"
    /\ OnlyPaths
    /\ NoRepeats
    /\ pc = "done" => YieldedVals = TreePaths(uri, disk.tree)

\* C4 amended: when the location is a directory that protocol resolution
\* classifies as Local (its name has no URL scheme beginning with "http"),
\* the scan never fails, yields only absolute paths of files of the tree,
\* none twice, and ends having yielded every one of them.
C4_DirectoryWalk ==
  (disk.kind = "dir" /\ ~HttpLikeScheme(uri)) =>
    /\ pc # "failed"
    /\ error = "none"
    /\ OnlyPaths
    /\ NoRepeats
    /\ \A i \in 1..Len(yielded) : yielded[i].val[1] = "/"
    /\ YieldedVals \subseteq TreePaths(uri, disk.tree)
    /\ pc = "done" => YieldedVals = TreePaths(uri, disk.tree)

\* the walk of a directory with files of its own and in a sub-directory ended
C4_Witness ==
  /\ disk.kind = "dir"
  /\ uri = L_NoExt
  /\ pc = "done"
  /\ Len(disk.tree.files) = 2
  /\ Len(disk.tree.subs) = 1
  /\ Len(yielded) = 4

\* C5: every access of one scan to the content uses the strategy of the
\* location's classification: HTTP GET for Remote, local read for Local.
C5_OneFetchStrategy ==
  /\ protocol = "HTTP" => accesses \subseteq {"http"}
  /\ protocol = "FILE" => accesses \subseteq {"local"}

\* the content classifier does not recognise the content the fetch returns
ContentUnrecognised ==
  \/ /\ ~HttpLikeScheme(uri)
     /\ disk.kind = "file"
     /\ disk.body.magic = "none"
  \/ /\ HttpLikeScheme(uri)
     /\ HasHost(uri)
     /\ web.ok
     /\ web.body.magic = "none"

\* C6: a location whose content the classifier does not recognise and whose
\* name the guesser does not recognise never completes its scan: nothing is
\* yielded and the scan fails with FileTypeNotSupportedYet; with a name the
\* guesser maps to a tag no scanner handles (.bin) it fails with
\* FileScanNotPossible.
C6_UnrecognisedFails ==
  /\ (ContentUnrecognised /\ GuessType(uri) = <<>>) =>
       /\ pc \in {"created", "closed", "failed"}
       /\ yielded = <<>>
       /\ pc = "failed" => error = "FileTypeNotSupportedYet"
  /\ (ContentUnrecognised /\ uri = L_Bin) =>
       /\ pc \in {"created", "closed", "dispatch", "failed"}
       /\ yielded = <<>>
       /\ pc = "failed" => error = "FileScanNotPossible"

\* the scan of an existing file with unrecognised content and name failed
C6_Witness ==
  /\ uri = L_NoExt
  /\ disk.kind = "file"
  /\ disk.body.magic = "none"
  /\ disk.body.lines # <<>>
  /\ pc = "failed"
  /\ error = "FileTypeNotSupportedYet"

IsPrefix(s, t) == Len(s) <= Len(t) /\ SubSeq(t, 1, Len(s)) = s

Counting(n) == [i \in 1..n |-> i]

\* C7: in both modes the relay yields the items of its input, in order, none
\* dropped, repeated or changed, and it ends having yielded all of them.
C7_RelayPreservesItems ==
  rPc # "off" =>
    /\ rInfinite => rOut = Counting(Len(rOut))
    /\ ~rInfinite => IsPrefix(rOut, rIn)
    /\ rPc = "done" => rOut = rIn
    /\ (rPc = "running" /\ ~rInfinite /\ rOut = rIn) => (rSrc = <<>> /\ rBuf = <<>>)

\* the precise relay of a generator of three items, not all equal, ended
C7_Witness ==
  /\ rPc = "done"
  /\ rPrecise
  /\ ~rSized
  /\ Len(rOut) = 3
  /\ rOut[1] # rOut[2]

\* C8: in non-precise mode the relay holds no unrolled input and has taken
\* from its input exactly as many items as it has yielded, also on an
\* unbounded generator, whose items it yields in order.
C8_NonPreciseIsLazy ==
  (rPc # "off" /\ ~rPrecise) =>
    /\ rPulled = Len(rOut)
    /\ rBuf = <<>>
    /\ rPc # "unrolling"
    /\ rInfinite => rOut = Counting(Len(rOut))
    /\ ~rInfinite => IsPrefix(rOut, rIn)

\* the non-precise relay yielded three items of an unbounded generator
C8_Witness ==
  /\ ~rPrecise
  /\ rInfinite
  /\ Len(rOut) = 3
  /\ rPulled = 3

RECURSIVE MemberLines(_)
MemberLines(members) ==
  IF members = <<>> THEN <<>>
  ELSE Head(members).lines \o MemberLines(Tail(members))

\* the lines the source of the running codec scanner holds
SourceLines ==
  IF scanner = "zip" THEN MemberLines(disk.body.members) ELSE disk.body.lines

YieldedRows == [i \in 1..Len(yielded) |-> yielded[i].val]

C10_HandlesReleased ==
  /\ pc = "created" => opened = 0
  /\ pc \in {"done", "closed", "failed"} => scoped + zipLive + orphaned = 0

\* ------------------------------------------------------------ C11

HasRow == \E j \in 1..Len(yielded) : yielded[j].kind = "row"

HasPath == \E j \in 1..Len(yielded) : yielded[j].kind = "path"

\* C11: a scan sequence holds only rows or only paths, and a scan that has
\* yielded a row never enters the directory walk, whatever happens to the
\* location on disk meanwhile
C11_Homogeneous ==
  /\ ~(HasRow /\ HasPath)
  /\ HasRow => pc \notin {"walk", "walking"}

====
